---- MODULE Spec2Model ----
(***************************************************************************)
(* Dialogue state machine of the AutoStream conversational agent:          *)
(* intent routing, multi-turn slot filling of the lead (name, email,       *)
(* platform), email validation and the lead capture sink.                  *)
(*                                                                         *)
(* Texts are TLA+ strings; Ch(s, i) is the i-th character (1-based).       *)
(* The regular expressions of lead_capture.py are modelled by operators    *)
(* that compute the match Python's backtracking matcher returns.           *)
(***************************************************************************)
EXTENDS Integers, Sequences, FiniteSets, TLC

(***************************************************************************)
(* Characters and text helpers                                             *)
(***************************************************************************)
LowerStr == "abcdefghijklmnopqrstuvwxyz"
UpperStr == "ABCDEFGHIJKLMNOPQRSTUVWXYZ"
DigitStr == "0123456789"

Ch(s, i) == SubSeq(s, i, i)

CharsOf(s) == {Ch(s, i) : i \in 1..Len(s)}

Lower == CharsOf(LowerStr)
Upper == CharsOf(UpperStr)
Digit == CharsOf(DigitStr)
Letter == Lower \cup Upper
\* \s of Python's re on str patterns (the ASCII part)
Space == {" ", "\t", "\n", "\r", "\f"}
\* \w of Python's re
WordCh == Letter \cup Digit \cup {"_"}

\* str.lower() on one character
LowerCh(c) ==
    IF c \in Upper
    THEN Ch(LowerStr, CHOOSE i \in 1..Len(UpperStr) : Ch(UpperStr, i) = c)
    ELSE c

RECURSIVE lower(_)
\* str.lower()
lower(s) ==
    IF Len(s) = 0 THEN ""
    ELSE IF Len(s) = 1 THEN LowerCh(s)
    ELSE lower(SubSeq(s, 1, Len(s) \div 2))
            \o lower(SubSeq(s, Len(s) \div 2 + 1, Len(s)))

RECURSIVE lstrip(_)
lstrip(s) == IF s # "" /\ Ch(s, 1) \in Space THEN lstrip(Tail(s)) ELSE s

RECURSIVE rstrip(_)
rstrip(s) ==
    IF s # "" /\ Ch(s, Len(s)) \in Space
    THEN rstrip(SubSeq(s, 1, Len(s) - 1))
    ELSE s

\* str.strip()
strip(s) == rstrip(lstrip(s))

\* Python's "key in text" on strings
Contains(s, key) ==
    \E i \in 1..(Len(s) - Len(key) + 1) : SubSeq(s, i, i + Len(key) - 1) = key

\* text s carries key at position i, ignoring case (re.IGNORECASE on a literal)
HasAtCI(s, i, key) ==
    /\ i >= 1
    /\ i + Len(key) - 1 <= Len(s)
    /\ lower(SubSeq(s, i, i + Len(key) - 1)) = key

AllIn(s, i, j, S) == \A k \in i..j : Ch(s, k) \in S

\* last position of the maximal run of characters of S starting at i (i-1: empty run)
RunEnd(s, i, S) ==
    CHOOSE j \in (i - 1)..Len(s) :
        /\ AllIn(s, i, j, S)
        /\ (j = Len(s) \/ Ch(s, j + 1) \notin S)

IsWordAt(s, k) == k >= 1 /\ k <= Len(s) /\ Ch(s, k) \in WordCh

\* \b between positions k and k+1 (k = 0: start of text, k = Len(s): end of text)
Boundary(s, k) == IsWordAt(s, k) # IsWordAt(s, k + 1)

\* smallest element of a non-empty set of integers / largest
Min(S) == CHOOSE x \in S : \A y \in S : x <= y
Max(S) == CHOOSE x \in S : \A y \in S : x >= y

(***************************************************************************)
(* lead_capture.py                                                         *)
(***************************************************************************)
Fields == {"name", "email", "platform"}

\* character classes of the two email patterns
LocalCh == Letter \cup Digit \cup {".", "_", "%", "+", "-"}
DomainCh == Letter \cup Digit \cup {".", "-"}
\* [A-Z|a-z] of the extraction pattern: the bar is a member of the class
ExtractTldCh == Letter \cup {"|"}
\* [a-zA-Z] of the validation pattern
ValidTldCh == Letter

\* validate_email: ^local+@domain+\.tld{2,}$ by re.match; "$" also matches just
\* before a newline that ends the text
ValidUpTo(email, n) ==
    \E a \in 2..n : \E d \in (a + 2)..(n - 2) :
        /\ Ch(email, a) = "@"
        /\ AllIn(email, 1, a - 1, LocalCh)
        /\ Ch(email, d) = "."
        /\ AllIn(email, a + 1, d - 1, DomainCh)
        /\ AllIn(email, d + 1, n, ValidTldCh)

validate_email(email) ==
    \/ ValidUpTo(email, Len(email))
    \/ /\ Len(email) >= 1
       /\ Ch(email, Len(email)) = "\n"
       /\ ValidUpTo(email, Len(email) - 1)

\* Ends e of a match of \.tld{2,}\b whose dot is at d (tld drawn from TldCh)
TldEnds(s, d, TldCh) ==
    {e \in (d + 2)..RunEnd(s, d + 1, TldCh) : Boundary(s, e)}

\* Positions d of the dot that closes the domain, for the "@" at a
DotsFor(s, a, TldCh) ==
    {d \in (a + 2)..RunEnd(s, a + 1, DomainCh) :
        Ch(s, d) = "." /\ TldEnds(s, d, TldCh) # {}}

\* Start positions i at which \blocal+@domain+\.tld{2,}\b matches
EmailStarts(s, TldCh) ==
    {i \in 1..Len(s) :
        /\ Boundary(s, i - 1)
        /\ LET a == RunEnd(s, i, LocalCh) + 1
           IN  /\ a > i
               /\ a <= Len(s)
               /\ Ch(s, a) = "@"
               /\ DotsFor(s, a, TldCh) # {}}

\* re.search(email_pattern, message): leftmost start, greedy domain, greedy tld
EmailSearch(s, TldCh) ==
    LET i == Min(EmailStarts(s, TldCh))
        a == RunEnd(s, i, LocalCh) + 1
        d == Max(DotsFor(s, a, TldCh))
        e == Max(TldEnds(s, d, TldCh))
    IN  SubSeq(s, i, e)

HasEmail(s) == EmailStarts(s, ExtractTldCh) # {}
ExtractEmail(s) == EmailSearch(s, ExtractTldCh)

\* the platforms dictionary, in insertion order
PlatformKeys ==
    <<"youtube", "instagram", "tiktok", "facebook", "twitter", "x",
      "linkedin", "twitch", "vimeo", "snapchat">>
PlatformNames ==
    <<"YouTube", "Instagram", "TikTok", "Facebook", "Twitter", "Twitter",
      "LinkedIn", "Twitch", "Vimeo", "Snapchat">>

PlatformHits(s) ==
    {k \in 1..Len(PlatformKeys) : Contains(lower(s), PlatformKeys[k])}
HasPlatform(s) == PlatformHits(s) # {}
\* first key, in dictionary order, that occurs in the lower-cased message
ExtractPlatform(s) == PlatformNames[Min(PlatformHits(s))]

\* [A-Z][a-z]+ under re.IGNORECASE at p: the maximal run of letters, two or more
WordEnd(s, p) == RunEnd(s, p, Letter)
IsWord2(s, p) == p >= 1 /\ WordEnd(s, p) >= p + 1

\* \s+[A-Z][a-z]+ after position r: end of the second word, or 0 when absent
SecondWordEnd(s, r) ==
    LET w == RunEnd(s, r + 1, Space)
    IN  IF w >= r + 1 /\ IsWord2(s, w + 1) THEN WordEnd(s, w + 1) ELSE 0

\* the group ([A-Z][a-z]+(?:\s+[A-Z][a-z]+)?) matched greedily at p, nothing after it
GroupEnd(s, p) ==
    LET r == WordEnd(s, p)
    IN  IF SecondWordEnd(s, r) > 0 THEN SecondWordEnd(s, r) ELSE r

\* pattern 1: (?:i'?m|i am|my name is|this is|call me|it'?s)\s+(group)
IntroPhrases ==
    <<"i'm", "im", "i am", "my name is", "this is", "call me", "it's", "its">>
\* where the group starts when an introduction phrase at q is followed by \s+
IntroGroupStarts(s, q, phrases) ==
    {RunEnd(s, q + Len(phrases[k]), Space) + 1 :
        k \in {j \in 1..Len(phrases) :
                 /\ HasAtCI(s, q, phrases[j])
                 /\ RunEnd(s, q + Len(phrases[j]), Space) >= q + Len(phrases[j])}}
Pattern1Starts(s, phrases) ==
    {q \in 1..Len(s) : \E p \in IntroGroupStarts(s, q, phrases) : IsWord2(s, p)}
Pattern1(s, phrases) ==
    LET q == Min(Pattern1Starts(s, phrases))
        p == CHOOSE x \in IntroGroupStarts(s, q, phrases) : IsWord2(s, x)
    IN  SubSeq(s, p, GroupEnd(s, p))

\* pattern 2: name[:\s]+(group)
Pattern2Starts(s) ==
    {q \in 1..Len(s) :
        /\ HasAtCI(s, q, "name")
        /\ RunEnd(s, q + 4, Space \cup {":"}) >= q + 4
        /\ IsWord2(s, RunEnd(s, q + 4, Space \cup {":"}) + 1)}
Pattern2(s) ==
    LET q == Min(Pattern2Starts(s))
        p == RunEnd(s, q + 4, Space \cup {":"}) + 1
    IN  SubSeq(s, p, GroupEnd(s, p))

\* pattern 3: ^(group)(?:\s|$): the group must end at white space or at the end
EndsAtSpace(s, e) == e = Len(s) \/ Ch(s, e + 1) \in Space
Pattern3Matches(s) == IsWord2(s, 1) /\ EndsAtSpace(s, WordEnd(s, 1))
Pattern3(s) ==
    LET r == WordEnd(s, 1)
        e == SecondWordEnd(s, r)
    IN  IF e > 0 /\ EndsAtSpace(s, e) THEN SubSeq(s, 1, e) ELSE SubSeq(s, 1, r)

\* pattern 4: ([A-Z][a-z]+\s+[A-Z][a-z]+)
Pattern4Starts(s) ==
    {q \in 1..Len(s) : IsWord2(s, q) /\ SecondWordEnd(s, WordEnd(s, q)) > 0}
Pattern4(s) ==
    LET q == Min(Pattern4Starts(s))
    IN  SubSeq(s, q, SecondWordEnd(s, WordEnd(s, q)))

\* len(potential_name) < 50
MaxNameLen == 50

\* the candidate of each name pattern, in list order; "" when it does not match
NameCandidates(s) ==
    << IF Pattern1Starts(s, IntroPhrases) # {}
       THEN strip(Pattern1(s, IntroPhrases)) ELSE "",
       IF Pattern2Starts(s) # {} THEN strip(Pattern2(s)) ELSE "",
       IF Pattern3Matches(s) THEN strip(Pattern3(s)) ELSE "",
       IF Pattern4Starts(s) # {} THEN strip(Pattern4(s)) ELSE "" >>

NameAccepted(c) == c # "" /\ Len(c) < MaxNameLen /\ ~Contains(c, "@")

NameHits(s) == {k \in 1..4 : NameAccepted(NameCandidates(s)[k])}
HasName(s) == NameHits(s) # {}
\* first pattern whose candidate passes the length and "@" test
ExtractName(s) == NameCandidates(s)[Min(NameHits(s))]

\* extract_info_from_message: a dict, modelled as a function on the keys present
extract_info_from_message(message) ==
    [f \in {g \in Fields :
               \/ g = "email" /\ HasEmail(message)
               \/ g = "platform" /\ HasPlatform(message)
               \/ g = "name" /\ HasName(message)} |->
        CASE f = "email" -> ExtractEmail(message)
          [] f = "platform" -> ExtractPlatform(message)
          [] f = "name" -> ExtractName(message)]

(***************************************************************************)
(* intent_detector.py                                                      *)
(***************************************************************************)
\* class Intent(Enum): the three values
GREETING == "greeting"
PRODUCT_INQUIRY == "product_inquiry"
HIGH_INTENT_LEAD == "high_intent_lead"
Intent == {GREETING, PRODUCT_INQUIRY, HIGH_INTENT_LEAD}

\* fault variant of detect: the reply is looked up as it came, not normalised
detectExact(reply) == IF reply \in Intent THEN reply ELSE PRODUCT_INQUIRY

\* IntentDetector.detect, from the classifier model's reply: strip, lower,
\* then intent_map.get(intent_str, Intent.PRODUCT_INQUIRY)
detect(reply) ==
    LET intent_str == lower(strip(reply))
    IN  IF intent_str \in Intent THEN intent_str ELSE PRODUCT_INQUIRY

(***************************************************************************)
(* agent.py: texts                                                         *)
(***************************************************************************)
AskAllThree == "Great! I'd love to help you get started with AutoStream. To proceed, I'll need a few details:\n\n1. What's your name?\n2. What's your email address?\n3. Which platform do you create content on? (YouTube, Instagram, TikTok, etc.)"
AskNameEmail == "I'd like to collect your name and email address to proceed."
AskNamePlatform == "I'd like to know your name and which platform you create content on."
AskEmailPlatform == "I'd like to collect your email and which platform you create content on."
AskName == "What's your name?"
AskEmail == "What's your email address?"
AskPlatform == "Which platform do you create content on? (YouTube, Instagram, TikTok, etc.)"
ThankYou == "Thank you! I have all the information I need."
AskValidEmail == "I need a valid email address. Could you please provide your email?"
DefaultResponse == "I'm here to help!"
\* the label _handle_lead appends to missing for the platform
PlatformLabel == "platform (e.g., YouTube, Instagram)"

Confirmation(name, email, platform) ==
    "Perfect! I've captured your information:\n- Name: " \o name
        \o "\n- Email: " \o email \o "\n- Platform: " \o platform
        \o "\n\nOur team will reach out to you shortly to help you get started with AutoStream!"

HumanMessage(content) == [role |-> "human", content |-> content]
AIMessage(content) == [role |-> "ai", content |-> content]

(***************************************************************************)
(* Inputs of the model                                                     *)
(***************************************************************************)
\* longest history a conversation is followed to
MaxHistory == 6

\* user messages
UserMessages ==
    {"hi", "x", "a@b.co", "im Al x a@b.c|d", "im Bo x c@d.io", "?"}

\* longest history the scripted conversations are followed to
MaxScenarioHistory == 7

\* the messages of the walkthrough of demo.py and of a malformed email
ScenarioB == "I want to try the Pro plan for my YouTube channel."
ScenarioC == "My name is John Doe"
ScenarioD == "john.doe@example.com"
ScenarioE == "john.doe@invalid"
ScenarioMessages == {ScenarioB, ScenarioC, ScenarioD, ScenarioE}

\* longest history the long conversations are followed to
MaxDialogueHistory == 11

\* the messages of the long conversations: the empty message and a platform
DialogueMessages == {"", "x"}

\* the classifier's replies in the long conversations
DialogueReplies == {"greeting", "high_intent_lead"}

\* extract_info_from_message on each user message, computed once
Extracted ==
    [m \in UserMessages \cup ScenarioMessages \cup DialogueMessages |->
        extract_info_from_message(m)]

\* replies of the classifier model
ClassifierReplies ==
    {"greeting", "product_inquiry", "high_intent_lead", " Greeting\n", "lead"}

\* replies of the text generation model
LLMReplies == {"generated answer"}

(***************************************************************************)
(* agent.py: ConversationalAgent                                           *)
(***************************************************************************)
VARIABLES
    agent,            \* which agent class the process runs: main.py or main_test_mode.py
    state,            \* the AgentState object the caller holds between chat calls
    gstate,           \* the state threaded through the graph during a chat call
    pc,               \* "idle", or the graph node about to run, or "end"
    before,           \* the caller's state as it was when the current (or last) call began
    ran,              \* the handlers, and the sink, that ran in the current (or last) call
    classifier_reply, \* the classifier model's answer while _process_message routes on it
    response,         \* what the last chat call returned, or NoResponse
    outcome,          \* "none", "ok" or "error": how the last chat call ended
    raised,           \* the adapter whose exception ended the last call, or "none"
    sink,             \* the calls of mock_lead_capture so far, in order, each with
                      \* its arguments and whether it returned
    history,          \* the history text _process_message passed to the classifier
    calls,            \* the calls of extract_info_from_message so far: <<message, result>>
    probe,            \* a text handed to validate_email on its own
    verdict,          \* what validate_email returned for probe, or NoVerdict
    detections        \* the calls of intent_detector.detect in the current (or last) chat call

vars ==
    <<agent, state, gstate, pc, before, ran, classifier_reply, response, outcome,
      raised, sink, history, calls, probe, verdict, detections>>

\* an absent text is the empty tuple, a text t that is there the tuple <<t>>
NoReply == <<>>
NoResponse == <<>>
NoHistory == <<>>
NoVerdict == <<>>

\* the state main() builds, and chat() builds when state is None
NewState ==
    [messages |-> <<>>, intent |-> "", lead_info |-> <<>>, conversation_turn |-> 0]

\* fault variant of Extract: the extractor leaves out the fields the lead
\* already holds
ExtractStateful(message) ==
    [f \in DOMAIN Extracted[message] \ DOMAIN gstate.lead_info |->
        Extracted[message][f]]

\* fault variant of Extract: an empty message is read as an empty name
ExtractEmptyAsName(message) ==
    IF message = "" THEN [name |-> ""] ELSE Extracted[message]

\* the call extract_info_from_message(user_message) the lead branch makes
Extract(message) == Extracted[message]

\* dict.get(key, "")
Get(lead_info, f) == IF f \in DOMAIN lead_info THEN lead_info[f] ELSE ""

\* dict.get(key) is truthy
Truthy(lead_info, f) == f \in DOMAIN lead_info /\ lead_info[f] # ""

\* fault variant of LeadComplete: the platform is not asked for
LeadCompleteNoPlatform(lead_info) ==
    /\ Truthy(lead_info, "name")
    /\ Truthy(lead_info, "email") /\ validate_email(lead_info["email"])

\* the completeness test of _process_message (negated there) and of
\* _check_lead_info_complete
LeadComplete(lead_info) ==
    /\ Truthy(lead_info, "name")
    /\ Truthy(lead_info, "email") /\ validate_email(lead_info["email"])
    /\ Truthy(lead_info, "platform")

\* fault variant of IsCollectingLead: the stored email is not validated
IsCollectingLeadNoValidate(lead_info) ==
    /\ DOMAIN lead_info # {}
    /\ ~(Truthy(lead_info, "name") /\ Truthy(lead_info, "email")
            /\ Truthy(lead_info, "platform"))

\* is_collecting_lead of _process_message
IsCollectingLead(lead_info) == DOMAIN lead_info # {} /\ ~LeadComplete(lead_info)

\* fault variant of RouteIntent: product_inquiry is wired to the greeting node
RouteIntentMisrouted(intent) ==
    CASE intent = "greeting" -> "handle_greeting"
      [] intent = "product_inquiry" -> "handle_greeting"
      [] intent = "high_intent_lead" -> "handle_lead"

\* _route_intent with the conditional edges of _build_graph
RouteIntent(intent) ==
    CASE intent = "greeting" -> "handle_greeting"
      [] intent = "product_inquiry" -> "handle_inquiry"
      [] intent = "high_intent_lead" -> "handle_lead"

\* _check_lead_info_complete with the conditional edges of _build_graph
CheckLeadInfoComplete(lead_info) ==
    IF LeadComplete(lead_info) THEN "collect_lead_info" ELSE "end"

\* fault variant of CommitExtracted: an extracted value replaces the stored one
CommitExtractedOverwrite(lead_info, extracted) ==
    [f \in DOMAIN lead_info \cup DOMAIN extracted |->
        IF f \in DOMAIN extracted THEN extracted[f] ELSE lead_info[f]]

\* fault variant of CommitExtracted: the lead is started again from what the
\* message yields
CommitExtractedReset(lead_info, extracted) ==
    IF DOMAIN extracted # {} THEN extracted ELSE lead_info

\* the three commits of _handle_lead: a key already in lead_info is kept
CommitExtracted(lead_info, extracted) ==
    [f \in DOMAIN lead_info \cup DOMAIN extracted |->
        IF f \in DOMAIN lead_info THEN lead_info[f] ELSE extracted[f]]

\* the missing list of _handle_lead
MissingList(lead_info) ==
    (IF "name" \notin DOMAIN lead_info THEN <<"name">> ELSE <<>>)
        \o (IF "email" \notin DOMAIN lead_info THEN <<"email">> ELSE <<>>)
        \o (IF "platform" \notin DOMAIN lead_info THEN <<PlatformLabel>> ELSE <<>>)

InList(v, list) == \E k \in 1..Len(list) : list[k] = v

\* the response _handle_lead selects
LeadResponse(missing) ==
    IF Len(missing) > 0
    THEN IF Len(missing) = 3 THEN AskAllThree
         ELSE IF Len(missing) = 2
              THEN IF InList("name", missing) /\ InList("email", missing)
                   THEN AskNameEmail
                   ELSE IF InList("name", missing) /\ InList("platform", missing)
                        THEN AskNamePlatform
                        ELSE AskEmailPlatform
              ELSE IF InList("name", missing) THEN AskName
                   ELSE IF InList("email", missing) THEN AskEmail
                        ELSE AskPlatform
    ELSE ThankYou

\* the exception leaves chat(): the caller keeps the object it passed in, with
\* the user message chat() appended to its list and the lead_info dict the
\* graph shares with it by reference
Raise(adapter) ==
    /\ raised' = adapter
    /\ UNCHANGED before
    /\ state' = [state EXCEPT !.lead_info = gstate.lead_info]
    /\ gstate' = state'
    /\ pc' = "idle"
    /\ outcome' = "error"
    /\ response' = NoResponse
    /\ classifier_reply' = NoReply
    /\ history' = NoHistory

\* messages[-6:] of _format_conversation_history
HistoryWindow == 6

RECURSIVE JoinLines(_)
\* "\n".join(parts)
JoinLines(parts) ==
    IF Len(parts) = 0 THEN ""
    ELSE IF Len(parts) = 1 THEN parts[1]
    ELSE parts[1] \o "\n" \o JoinLines(Tail(parts))

\* fault variant of FormatConversationHistory: the whole history is rendered
FormatWholeHistory(messages) ==
    JoinLines([k \in 1..Len(messages) |->
        IF messages[k].role = "human"
        THEN "User: " \o messages[k].content
        ELSE "Agent: " \o messages[k].content])

\* _format_conversation_history (the same in both agents)
FormatConversationHistory(messages) ==
    LET first == IF Len(messages) > HistoryWindow
                 THEN Len(messages) - HistoryWindow + 1 ELSE 1
        window == SubSeq(messages, first, Len(messages))
    IN  JoinLines([k \in 1..Len(window) |->
            IF window[k].role = "human"
            THEN "User: " \o window[k].content
            ELSE "Agent: " \o window[k].content])

\* chat(), up to the call of the graph
ChatCall(user_message) ==
    /\ agent = "ConversationalAgent"
    /\ pc = "idle"
    /\ state' = [state EXCEPT !.messages = Append(@, HumanMessage(user_message))]
    /\ gstate' = state'
    /\ pc' = "process_message"
    /\ before' = state
    /\ ran' = {}
    /\ classifier_reply' = NoReply
    /\ history' = NoHistory
    /\ response' = NoResponse
    /\ outcome' = "none"
    /\ raised' = "none"
    /\ detections' = 0
    /\ UNCHANGED <<agent, calls, probe, verdict, sink>>

\* chat() while the history is within the bound
Chat(user_message) ==
    /\ Len(state.messages) + 3 <= MaxHistory
    /\ ChatCall(user_message)

\* chat() on a message of the walkthrough
ScenarioChat(user_message) ==
    /\ Len(state.messages) + 3 <= MaxScenarioHistory
    /\ ChatCall(user_message)

\* chat() in a long conversation
DialogueChat(user_message) ==
    /\ Len(state.messages) + 3 <= MaxDialogueHistory
    /\ ChatCall(user_message)

\* fault variant of ProcessMessageOverride: the turn is not counted on the
\* override path
ProcessMessageOverrideNoCount ==
    /\ pc = "process_message"
    /\ IsCollectingLead(gstate.lead_info)
    /\ gstate' = [gstate EXCEPT !.intent = "high_intent_lead"]
    /\ pc' = RouteIntent(gstate'.intent)
    /\ UNCHANGED <<agent, detections, calls, probe, verdict, state, before, ran, classifier_reply, history, response, outcome, raised, sink>>

\* _process_message, then _route_intent
ProcessMessageOverride ==
    /\ pc = "process_message"
    /\ IsCollectingLead(gstate.lead_info)
    /\ gstate' = [gstate EXCEPT !.intent = "high_intent_lead",
                                !.conversation_turn = @ + 1]
    /\ pc' = RouteIntent(gstate'.intent)
    /\ UNCHANGED <<agent, detections, calls, probe, verdict, state, before, ran, classifier_reply, history, response, outcome, raised, sink>>

\* fault variant of ProcessMessageDetect: the turn is not counted when the
\* classifier is consulted
ProcessMessageDetectNoCount(reply) ==
    /\ pc = "process_message"
    /\ ~IsCollectingLead(gstate.lead_info)
    /\ classifier_reply' = <<reply>>
    /\ history' = <<FormatConversationHistory(
            SubSeq(gstate.messages, 1, Len(gstate.messages) - 1))>>
    /\ gstate' = [gstate EXCEPT !.intent = detect(reply)]
    /\ pc' = RouteIntent(gstate'.intent)
    /\ detections' = detections + 1
    /\ UNCHANGED <<agent, calls, probe, verdict, state, before, ran, response, outcome, raised, sink>>

ProcessMessageDetect(reply) ==
    /\ pc = "process_message"
    /\ ~IsCollectingLead(gstate.lead_info)
    /\ classifier_reply' = <<reply>>
    /\ history' = <<FormatConversationHistory(
            SubSeq(gstate.messages, 1, Len(gstate.messages) - 1))>>
    /\ gstate' = [gstate EXCEPT !.intent = detect(reply),
                                !.conversation_turn = @ + 1]
    /\ pc' = RouteIntent(gstate'.intent)
    /\ detections' = detections + 1
    /\ UNCHANGED <<agent, calls, probe, verdict, state, before, ran, response, outcome, raised, sink>>

\* self.llm.invoke inside IntentDetector.detect raises
ProcessMessageRaise ==
    /\ pc = "process_message"
    /\ ~IsCollectingLead(gstate.lead_info)
    /\ Raise("classifier")
    /\ detections' = detections + 1
    /\ UNCHANGED <<agent, calls, probe, verdict, ran, sink>>

\* _handle_greeting
HandleGreeting(reply) ==
    /\ pc = "handle_greeting"
    /\ ran' = ran \cup {"handle_greeting"}
    /\ gstate' = [gstate EXCEPT !.messages = Append(@, AIMessage(reply))]
    /\ pc' = "end"
    /\ classifier_reply' = NoReply
    /\ history' = NoHistory
    /\ UNCHANGED <<agent, detections, calls, probe, verdict, state, before, response, outcome, raised, sink>>

\* self.llm.invoke raises in _handle_greeting
HandleGreetingRaise ==
    /\ pc = "handle_greeting"
    /\ ran' = ran \cup {"handle_greeting"}
    /\ Raise("text_generation")
    /\ UNCHANGED <<agent, detections, calls, probe, verdict, sink>>

\* fault variant of HandleInquiry: the inquiry branch commits what the message
\* yields into the lead
HandleInquiryCommits(reply) ==
    /\ pc = "handle_inquiry"
    /\ ran' = ran \cup {"handle_inquiry"}
    /\ gstate' = [gstate EXCEPT
            !.messages = Append(@, AIMessage(reply)),
            !.lead_info = CommitExtracted(@,
                Extracted[gstate.messages[Len(gstate.messages)].content])]
    /\ pc' = "end"
    /\ classifier_reply' = NoReply
    /\ history' = NoHistory
    /\ UNCHANGED <<agent, detections, calls, probe, verdict, state, before, response, outcome, raised, sink>>

\* _handle_inquiry
HandleInquiry(reply) ==
    /\ pc = "handle_inquiry"
    /\ ran' = ran \cup {"handle_inquiry"}
    /\ gstate' = [gstate EXCEPT !.messages = Append(@, AIMessage(reply))]
    /\ pc' = "end"
    /\ classifier_reply' = NoReply
    /\ history' = NoHistory
    /\ UNCHANGED <<agent, detections, calls, probe, verdict, state, before, response, outcome, raised, sink>>

\* self.rag.get_context or self.llm.invoke raises in _handle_inquiry
HandleInquiryRaise(adapter) ==
    /\ pc = "handle_inquiry"
    /\ ran' = ran \cup {"handle_inquiry"}
    /\ Raise(adapter)
    /\ UNCHANGED <<agent, detections, calls, probe, verdict, sink>>

\* _handle_lead, then _check_lead_info_complete
HandleLead ==
    /\ pc = "handle_lead"
    /\ ran' = ran \cup {"handle_lead"}
    /\ LET user_message == gstate.messages[Len(gstate.messages)].content
           extracted == Extract(user_message)
           lead_info == CommitExtracted(gstate.lead_info, extracted)
           response_text == LeadResponse(MissingList(lead_info))
       IN  /\ gstate' = [gstate EXCEPT !.lead_info = lead_info,
                                       !.messages = Append(@, AIMessage(response_text))]
           /\ pc' = CheckLeadInfoComplete(lead_info)
           /\ calls' = calls \cup {<<user_message, extracted>>}
    /\ classifier_reply' = NoReply
    /\ history' = NoHistory
    /\ UNCHANGED <<agent, detections, probe, verdict, state, before, response, outcome, raised, sink>>

\* _collect_lead_info: the email is validated again, then mock_lead_capture
\* returns and the confirmation is appended
CollectLeadInfo ==
    /\ pc = "collect_lead_info"
    /\ LET name == Get(gstate.lead_info, "name")
           email == Get(gstate.lead_info, "email")
           platform == Get(gstate.lead_info, "platform")
       IN  IF ~validate_email(email)
           THEN /\ gstate' = [gstate EXCEPT !.messages =
                                 Append(@, AIMessage(AskValidEmail))]
                /\ ran' = ran \cup {"collect_lead_info"}
                /\ sink' = sink
           ELSE /\ sink' = Append(sink, [name |-> name, email |-> email,
                                         platform |-> platform, returned |-> TRUE])
                /\ ran' = ran \cup {"collect_lead_info", "mock_lead_capture"}
                /\ gstate' = [gstate EXCEPT !.messages =
                                 Append(@, AIMessage(Confirmation(name, email, platform)))]
    /\ pc' = "end"
    /\ classifier_reply' = NoReply
    /\ history' = NoHistory
    /\ UNCHANGED <<agent, detections, calls, probe, verdict, state, before, response, outcome, raised>>

\* _collect_lead_info: mock_lead_capture is called and raises (its print fails);
\* nothing catches it
CollectLeadInfoRaise ==
    /\ pc = "collect_lead_info"
    /\ validate_email(Get(gstate.lead_info, "email"))
    /\ sink' = Append(sink, [name |-> Get(gstate.lead_info, "name"),
                             email |-> Get(gstate.lead_info, "email"),
                             platform |-> Get(gstate.lead_info, "platform"),
                             returned |-> FALSE])
    /\ ran' = ran \cup {"collect_lead_info", "mock_lead_capture"}
    /\ Raise("lead_capture")
    /\ UNCHANGED <<agent, detections, calls, probe, verdict>>

\* fault variant of LastAIContent: the first AIMessage written in the turn
FirstAIContent(messages) ==
    LET ai == {k \in 1..Len(messages) :
                 messages[k].role = "ai" /\ k > Len(before.messages)}
    IN  IF ai = {} THEN "" ELSE messages[Min(ai)].content

\* the content of the last AIMessage of the list, "" when there is none
LastAIContent(messages) ==
    LET ai == {k \in 1..Len(messages) : messages[k].role = "ai"}
    IN  IF ai = {} THEN "" ELSE messages[Max(ai)].content

\* chat(), after the graph returned: the last AI message and the final state
ChatReturn ==
    /\ pc = "end"
    /\ response' = << IF LastAIContent(gstate.messages) # ""
                       THEN LastAIContent(gstate.messages)
                       ELSE DefaultResponse >>
    /\ state' = gstate
    /\ outcome' = "ok"
    /\ pc' = "idle"
    /\ classifier_reply' = NoReply
    /\ history' = NoHistory
    /\ UNCHANGED <<agent, detections, calls, probe, verdict, gstate, before, ran, raised, sink>>

(***************************************************************************)
(* agent_test_mode.py: TestModeAgent                                       *)
(***************************************************************************)
TMGreeting == "Hello! Welcome to AutoStream. I'm here to help you learn about our automated video editing platform for content creators. How can I assist you today?"
TMPricing == "We offer two pricing plans:\n\n**Basic Plan:**\n- Price: $29/month\n- 10 videos per month\n- 720p resolution\n- Basic editing tools\n\n**Pro Plan:**\n- Price: $79/month\n- Unlimited videos\n- 4K resolution\n- AI captions\n- Advanced editing tools\n\nWhich plan interests you?"
TMProFeatures == "The Pro Plan includes:\n- Unlimited videos per month\n- 4K resolution output\n- AI-powered captions\n- Advanced editing tools\n- 24/7 support\n\nIt's perfect for professional content creators who need high-quality output and unlimited capacity."
TMRefund == "Our refund policy: No refunds after 7 days. We also offer 24/7 support, but only on the Pro plan."
TMFallback == "I'm here to help! How can I assist you with AutoStream?"
\* what MockRAGPipeline.get_context renders: knowledge_base.json is data outside
\* the sources, so only the heading the code itself writes is kept
KnowledgeContext == "## Pricing Plans\n"
TMKnowledge ==
    "Based on our knowledge base:\n\n" \o KnowledgeContext
        \o "\n\nIs there anything specific you'd like to know about AutoStream?"

ContainsAny(s, keys) == \E k \in 1..Len(keys) : Contains(s, keys[k])

\* len(text.split())
WordCount(s) ==
    Cardinality({i \in 1..Len(s) :
        Ch(s, i) \notin Space /\ (i = 1 \/ Ch(s, i - 1) \in Space)})

\* len(message_lower.split()) < 5
GreetingMaxWords == 5

\* MockIntentDetector.detect
MockDetect(message, conversation_history) ==
    LET message_lower == lower(message)
    IN  IF \/ Contains(lower(conversation_history), "lead_info")
           \/ Contains(message_lower, "name")
           \/ Contains(message_lower, "@")
        THEN HIGH_INTENT_LEAD
        ELSE IF \/ ContainsAny(message_lower,
                        <<"want", "try", "sign up", "buy", "purchase",
                          "interested", "ready">>)
                \/ ContainsAny(message_lower,
                        <<"youtube", "instagram", "tiktok", "channel", "platform">>)
        THEN HIGH_INTENT_LEAD
        ELSE IF /\ ContainsAny(message_lower, <<"hi", "hello", "hey", "greetings">>)
                /\ WordCount(message_lower) < GreetingMaxWords
        THEN GREETING
        ELSE PRODUCT_INQUIRY

\* is_collecting_lead of TestModeAgent.chat: no validate_email in it
TMIsCollectingLead(lead_info) ==
    /\ DOMAIN lead_info # {}
    /\ ~(Truthy(lead_info, "name") /\ Truthy(lead_info, "email")
            /\ Truthy(lead_info, "platform"))

\* the response of the product_inquiry branch
TMInquiryResponse(user_message) ==
    LET query_lower == lower(user_message)
    IN  IF ContainsAny(query_lower, <<"pricing", "price", "cost">>) THEN TMPricing
        ELSE IF Contains(query_lower, "pro")
                    /\ ContainsAny(query_lower, <<"feature", "include">>)
             THEN TMProFeatures
        ELSE IF ContainsAny(query_lower, <<"refund", "policy">>) THEN TMRefund
        ELSE TMKnowledge

\* the two name patterns TestModeAgent.chat tries itself
TMIntroPhrases == <<"i'm", "im", "my name is", "i am", "this is", "call me">>
TMNameCandidates(s) ==
    << IF Pattern1Starts(s, TMIntroPhrases) # {}
       THEN strip(Pattern1(s, TMIntroPhrases)) ELSE "",
       IF Pattern2Starts(s) # {} THEN strip(Pattern2(s)) ELSE "" >>
TMNameHits(s) == {k \in 1..2 : NameAccepted(TMNameCandidates(s)[k])}

\* the platform list TestModeAgent.chat tries itself
TMPlatforms ==
    <<"YouTube", "Instagram", "TikTok", "Facebook", "Twitter", "LinkedIn", "Twitch">>
TMPlatformHits(s) ==
    {k \in 1..Len(TMPlatforms) : Contains(lower(s), lower(TMPlatforms[k]))}

\* lead_info[f] = v
Put(lead_info, f, v) ==
    [g \in DOMAIN lead_info \cup {f} |-> IF g = f THEN v ELSE lead_info[g]]

\* the name step of the lead branch: an extracted name always overwrites
TMSetName(lead_info, extracted, s) ==
    IF "name" \in DOMAIN extracted /\ extracted["name"] # ""
    THEN Put(lead_info, "name", extracted["name"])
    ELSE IF ~Truthy(lead_info, "name") /\ TMNameHits(s) # {}
         THEN Put(lead_info, "name", TMNameCandidates(s)[Min(TMNameHits(s))])
         ELSE lead_info

\* the email step of the lead branch
TMSetEmail(lead_info, extracted, s) ==
    IF "email" \in DOMAIN extracted /\ "email" \notin DOMAIN lead_info
    THEN Put(lead_info, "email", extracted["email"])
    ELSE IF "email" \notin DOMAIN lead_info /\ HasEmail(s)
         THEN Put(lead_info, "email", ExtractEmail(s))
         ELSE lead_info

\* the platform step of the lead branch
TMSetPlatform(lead_info, extracted, s) ==
    IF "platform" \in DOMAIN extracted /\ "platform" \notin DOMAIN lead_info
    THEN Put(lead_info, "platform", extracted["platform"])
    ELSE IF "platform" \notin DOMAIN lead_info /\ TMPlatformHits(s) # {}
         THEN Put(lead_info, "platform", TMPlatforms[Min(TMPlatformHits(s))])
         ELSE lead_info

\* the three steps on each user message, computed once per lead_info
TMLeadInfo(lead_info, s) ==
    TMSetPlatform(TMSetEmail(TMSetName(lead_info, Extract(s), s), Extract(s), s),
                  Extract(s), s)

\* the missing list of the lead branch: a key with an empty value counts as missing
TMMissingList(lead_info) ==
    (IF ~Truthy(lead_info, "name") THEN <<"name">> ELSE <<>>)
        \o (IF ~Truthy(lead_info, "email") THEN <<"email">> ELSE <<>>)
        \o (IF ~Truthy(lead_info, "platform") THEN <<"platform">> ELSE <<>>)

\* the sink is called in the lead branch: nothing missing and the email valid
TMCaptures(lead_info) ==
    TMMissingList(lead_info) = <<>> /\ validate_email(Get(lead_info, "email"))

\* the response of the lead branch
TMLeadResponse(lead_info) ==
    IF TMMissingList(lead_info) # <<>>
    THEN LeadResponse(TMMissingList(lead_info))
    ELSE IF validate_email(Get(lead_info, "email"))
         THEN Confirmation(Get(lead_info, "name"), Get(lead_info, "email"),
                           Get(lead_info, "platform"))
         ELSE AskValidEmail

\* the intent TestModeAgent.chat resolves for a message
TMIntent(st, user_message) ==
    IF TMIsCollectingLead(st.lead_info)
    THEN HIGH_INTENT_LEAD
    ELSE MockDetect(user_message, FormatConversationHistory(st.messages))

TMBranch(intent) ==
    IF intent = GREETING THEN "handle_greeting"
    ELSE IF intent = PRODUCT_INQUIRY THEN "handle_inquiry"
    ELSE IF intent = HIGH_INTENT_LEAD THEN "handle_lead"
    ELSE "fallback"

\* TestModeAgent.chat, returning
TMChat(user_message) ==
    /\ agent = "TestModeAgent"
    /\ pc = "idle"
    /\ Len(state.messages) + 3 <= MaxHistory
    /\ LET intent == TMIntent(state, user_message)
           lead_info == IF intent = HIGH_INTENT_LEAD
                        THEN TMLeadInfo(state.lead_info, user_message)
                        ELSE state.lead_info
           captures == intent = HIGH_INTENT_LEAD /\ TMCaptures(lead_info)
           text == IF intent = GREETING THEN TMGreeting
                   ELSE IF intent = PRODUCT_INQUIRY THEN TMInquiryResponse(user_message)
                   ELSE IF intent = HIGH_INTENT_LEAD THEN TMLeadResponse(lead_info)
                   ELSE TMFallback
       IN  /\ state' = [messages |-> state.messages \o
                            <<HumanMessage(user_message), AIMessage(text)>>,
                        intent |-> intent,
                        lead_info |-> lead_info,
                        conversation_turn |-> state.conversation_turn + 1]
           /\ ran' = {TMBranch(intent)}
                        \cup (IF captures THEN {"mock_lead_capture"} ELSE {})
           /\ calls' = IF intent = HIGH_INTENT_LEAD
                       THEN calls \cup {<<user_message, Extract(user_message)>>}
                       ELSE calls
           /\ sink' = IF captures
                      THEN Append(sink, [name |-> Get(lead_info, "name"),
                                         email |-> Get(lead_info, "email"),
                                         platform |-> Get(lead_info, "platform"),
                                         returned |-> TRUE])
                      ELSE sink
           /\ response' = <<text>>
    /\ gstate' = state'
    /\ before' = state
    /\ outcome' = "ok"
    /\ raised' = "none"
    /\ detections' = IF TMIsCollectingLead(state.lead_info) THEN 0 ELSE 1
    /\ UNCHANGED <<agent, probe, verdict, pc, classifier_reply, history>>

\* TestModeAgent.chat when self.rag.get_context raises (product_inquiry branch)
\* or mock_lead_capture raises (lead branch, lead complete and valid): the
\* caller's state object was changed in place up to that point
TMChatRaise(user_message) ==
    /\ agent = "TestModeAgent"
    /\ pc = "idle"
    /\ Len(state.messages) + 3 <= MaxHistory
    /\ LET intent == TMIntent(state, user_message)
           lead_info == IF intent = HIGH_INTENT_LEAD
                        THEN TMLeadInfo(state.lead_info, user_message)
                        ELSE state.lead_info
           captures == intent = HIGH_INTENT_LEAD /\ TMCaptures(lead_info)
       IN  /\ (intent = PRODUCT_INQUIRY) # captures
           /\ state' = [messages |-> Append(state.messages, HumanMessage(user_message)),
                        intent |-> intent,
                        lead_info |-> lead_info,
                        conversation_turn |-> state.conversation_turn + 1]
           /\ ran' = {TMBranch(intent)}
                        \cup (IF captures THEN {"mock_lead_capture"} ELSE {})
           /\ calls' = IF intent = HIGH_INTENT_LEAD
                       THEN calls \cup {<<user_message, Extract(user_message)>>}
                       ELSE calls
           /\ sink' = IF captures
                      THEN Append(sink, [name |-> Get(lead_info, "name"),
                                         email |-> Get(lead_info, "email"),
                                         platform |-> Get(lead_info, "platform"),
                                         returned |-> FALSE])
                      ELSE sink
           /\ raised' = IF captures THEN "lead_capture" ELSE "retrieval"
    /\ gstate' = state'
    /\ before' = state
    /\ outcome' = "error"
    /\ response' = NoResponse
    /\ detections' = IF TMIsCollectingLead(state.lead_info) THEN 0 ELSE 1
    /\ UNCHANGED <<agent, probe, verdict, pc, classifier_reply, history>>

Init ==
    /\ agent \in {"ConversationalAgent", "TestModeAgent"}
    /\ state = NewState
    /\ gstate = NewState
    /\ pc = "idle"
    /\ before = NewState
    /\ ran = {}
    /\ classifier_reply = NoReply
    /\ response = NoResponse
    /\ outcome = "none"
    /\ raised = "none"
    /\ sink = <<>>
    /\ history = NoHistory
    /\ calls = {}
    /\ probe = ""
    /\ verdict = NoVerdict
    /\ detections = 0

Next ==
    \/ \E user_message \in UserMessages : Chat(user_message)
    \/ ProcessMessageOverride
    \/ \E reply \in ClassifierReplies : ProcessMessageDetect(reply)
    \/ ProcessMessageRaise
    \/ \E reply \in LLMReplies : HandleGreeting(reply)
    \/ HandleGreetingRaise
    \/ \E reply \in LLMReplies : HandleInquiry(reply)
    \/ \E adapter \in {"retrieval", "text_generation"} : HandleInquiryRaise(adapter)
    \/ HandleLead
    \/ CollectLeadInfo
    \/ CollectLeadInfoRaise
    \/ ChatReturn
    \/ \E user_message \in UserMessages : TMChat(user_message)
    \/ \E user_message \in UserMessages : TMChatRaise(user_message)

Spec == Init /\ [][Next]_vars

\* ConversationalAgent on the messages of the walkthrough
ScenarioInit ==
    /\ Init
    /\ agent = "ConversationalAgent"

ScenarioNext ==
    \/ \E user_message \in ScenarioMessages : ScenarioChat(user_message)
    \/ ProcessMessageOverride
    \/ \E reply \in ClassifierReplies : ProcessMessageDetect(reply)
    \/ ProcessMessageRaise
    \/ \E reply \in LLMReplies : HandleGreeting(reply)
    \/ HandleGreetingRaise
    \/ \E reply \in LLMReplies : HandleInquiry(reply)
    \/ \E adapter \in {"retrieval", "text_generation"} : HandleInquiryRaise(adapter)
    \/ HandleLead
    \/ CollectLeadInfo
    \/ CollectLeadInfoRaise
    \/ ChatReturn

ScenarioSpec == ScenarioInit /\ [][ScenarioNext]_vars

\* ConversationalAgent in conversations of five turns, no lead completed
DialogueNext ==
    \/ \E user_message \in DialogueMessages : DialogueChat(user_message)
    \/ ProcessMessageOverride
    \/ \E reply \in DialogueReplies : ProcessMessageDetect(reply)
    \/ ProcessMessageRaise
    \/ \E reply \in LLMReplies : HandleGreeting(reply)
    \/ HandleGreetingRaise
    \/ HandleLead
    \/ ChatReturn

DialogueSpec == ScenarioInit /\ [][DialogueNext]_vars

\* conversations in which every chat call returns: no adapter raises
SuccessNext ==
    \/ \E user_message \in UserMessages : Chat(user_message)
    \/ ProcessMessageOverride
    \/ \E reply \in ClassifierReplies : ProcessMessageDetect(reply)
    \/ \E reply \in LLMReplies : HandleGreeting(reply)
    \/ \E reply \in LLMReplies : HandleInquiry(reply)
    \/ HandleLead
    \/ CollectLeadInfo
    \/ ChatReturn
    \/ \E user_message \in UserMessages : TMChat(user_message)

SuccessSpec == Init /\ [][SuccessNext]_vars

(***************************************************************************)
(* validate_email called on its own, on texts built a character at a time  *)
(***************************************************************************)
MaxProbeLen == 7

\* the caller puts one more character at the end of the text
ProbeAppend(c) ==
    /\ Len(probe) < MaxProbeLen
    /\ probe' = probe \o c
    /\ verdict' = NoVerdict
    /\ UNCHANGED <<agent, detections, state, gstate, pc, before, ran, classifier_reply,
                   response, outcome, raised, sink, history, calls>>

\* validate_email(probe)
ValidateEmail ==
    /\ verdict = NoVerdict
    /\ verdict' = <<validate_email(probe)>>
    /\ UNCHANGED <<agent, detections, state, gstate, pc, before, ran, classifier_reply,
                   response, outcome, raised, sink, history, calls, probe>>

EmailNext ==
    \/ \E c \in {"a", "@", ".", " ", "\n"} : ProbeAppend(c)
    \/ ValidateEmail

EmailSpec == ScenarioInit /\ [][EmailNext]_vars

(***************************************************************************)
(* Properties                                                              *)
(***************************************************************************)
CA == "ConversationalAgent"
HandlerNodes == {"handle_greeting", "handle_inquiry", "handle_lead"}

\* the user message of the current (or last) chat call
CurrentMessage == state.messages[Len(before.messages) + 1].content

\* a field holds a non-empty value
Set(lead_info, f) == f \in DOMAIN lead_info /\ lead_info[f] # ""

AllSet(lead_info) == \A f \in Fields : Set(lead_info, f)

AllSetAndValid(lead_info) == AllSet(lead_info) /\ validate_email(lead_info["email"])

\* slot-filling mode: the lead is non-empty and name, a valid email or the
\* platform is still missing
SlotFillingMode(lead_info) == DOMAIN lead_info # {} /\ ~AllSetAndValid(lead_info)

\* the intent of the call has been resolved and the call has not failed
Routed ==
    \/ pc \in HandlerNodes \cup {"collect_lead_info", "end"}
    \/ pc = "idle" /\ outcome = "ok"

\* the lead branch ran in a call that did not fail
LeadTurnDone ==
    /\ "handle_lead" \in ran
    /\ pc = "end" \/ (pc = "idle" /\ outcome = "ok")

\* a set field keeps its value from old to new, unless it is an invalid email
KeptOrInvalidEmail(old, new) ==
    \A f \in Fields :
        Set(old, f) =>
            \/ f \in DOMAIN new /\ new[f] = old[f]
            \/ f = "email" /\ ~validate_email(old[f])

\* C1: in ConversationalAgent, once name, email or platform of lead_info holds a
\* non-empty value no step of any later turn changes it, except that an email
\* that fails validate_email may be replaced.
C1_SetOnce ==
    [][agent = CA =>
        /\ KeptOrInvalidEmail(gstate.lead_info, gstate'.lead_info)
        /\ KeptOrInvalidEmail(state.lead_info, state'.lead_info)]_vars

\* C1 witness: a lead turn has run on a message from which the extractor yields a
\* value different from the one already stored (and, for email, stored valid).
C1_Witness ==
    /\ agent = CA
    /\ pc = "end"
    /\ "handle_lead" \in ran
    /\ \E f \in Fields :
        /\ Set(before.lead_info, f)
        /\ f \in DOMAIN Extracted[CurrentMessage]
        /\ Extracted[CurrentMessage][f] # before.lead_info[f]
        /\ f = "email" => validate_email(before.lead_info[f])

\* C2: in ConversationalAgent.chat, a turn that starts in slot-filling mode
\* (lead non-empty; name, a valid email or platform missing) resolves to
\* high_intent_lead and runs the lead branch and no other branch.
C2_OverrideForcesLead ==
    (agent = CA /\ Routed /\ SlotFillingMode(before.lead_info)) =>
        /\ gstate.intent = HIGH_INTENT_LEAD
        /\ pc = "handle_lead" \/ "handle_lead" \in ran
        /\ pc \notin {"handle_greeting", "handle_inquiry"}
        /\ ran \cap {"handle_greeting", "handle_inquiry"} = {}

\* C2 witness: a turn that began with all three fields stored but the email
\* invalid has run the lead branch.
C2_Witness ==
    /\ agent = CA
    /\ pc = "end"
    /\ AllSet(before.lead_info)
    /\ ~validate_email(before.lead_info["email"])
    /\ "handle_lead" \in ran

\* C3: mock_lead_capture is invoked only when name, email and platform are all
\* set and the stored email passes validate_email, with exactly those values; a
\* turn in which it was invoked never ends with a field missing or the email
\* invalid.
C3_SinkOnlyWhenCompleteAndValid ==
    /\ [][/\ sink' # sink =>
                /\ Len(sink') = Len(sink) + 1
                /\ SubSeq(sink', 1, Len(sink)) = sink
                /\ AllSetAndValid(gstate'.lead_info)
                /\ \A f \in Fields : sink'[Len(sink')][f] = gstate'.lead_info[f]
                /\ "mock_lead_capture" \in ran'
          /\ ("mock_lead_capture" \in ran' /\ "mock_lead_capture" \notin ran) =>
                sink' # sink]_vars
    /\ []((pc = "idle" /\ "mock_lead_capture" \in ran) => AllSetAndValid(state.lead_info))

\* C3 witness: a turn has invoked the sink and returned.
C3_Witness ==
    /\ pc = "idle"
    /\ outcome = "ok"
    /\ "mock_lead_capture" \in ran
    /\ Len(sink) = 1
    /\ AllSetAndValid(state.lead_info)

\* C4: over a conversation of ConversationalAgent the lead capture sink is
\* invoked at most once for the completed lead (stated for the invocations that
\* returned).
C4_SinkAtMostOnce ==
    agent = CA => Cardinality({k \in 1..Len(sink) : sink[k].returned}) <= 1

\* C5: in ConversationalAgent, a lead turn that ends with name, email and
\* platform set but the stored email failing validate_email returns the request
\* for a valid email, does not invoke the sink and keeps the invalid email.
C5_InvalidEmailPrompt ==
    (/\ agent = CA
     /\ pc = "idle"
     /\ outcome = "ok"
     /\ "handle_lead" \in ran
     /\ AllSet(state.lead_info)
     /\ ~validate_email(state.lead_info["email"])) =>
        /\ response = <<AskValidEmail>>
        /\ "mock_lead_capture" \notin ran

\* C6: when the stored email fails validate_email and the message of a lead turn
\* contains an email the extractor extracts, the turn replaces the stored email
\* with the extracted one (stated for ConversationalAgent).
C6_InvalidEmailReplaced ==
    (/\ agent = CA
     /\ LeadTurnDone
     /\ Set(before.lead_info, "email")
     /\ ~validate_email(before.lead_info["email"])
     /\ "email" \in DOMAIN Extracted[CurrentMessage]) =>
        gstate.lead_info["email"] = Extracted[CurrentMessage]["email"]

\* C7: when the lead capture sink raises on the completing turn, chat still
\* returns the confirmation and a successor state; the failure does not reach
\* the caller (stated for ConversationalAgent).
C7_SinkFailureNotFatal ==
    (agent = CA /\ pc = "idle" /\ raised = "lead_capture") =>
        /\ outcome = "ok"
        /\ response = << Confirmation(state.lead_info["name"], state.lead_info["email"],
                                      state.lead_info["platform"]) >>

\* C8: when a chat call of ConversationalAgent fails because the classifier, the
\* retrieval or the text generation adapter raises, the state object the caller
\* holds is as it was before the call.
C8_FailedCallLeavesState ==
    (/\ agent = CA
     /\ pc = "idle"
     /\ outcome = "error"
     /\ raised \in {"classifier", "retrieval", "text_generation"}) =>
        state = before

\* C9 as stated: detect returns one of the three intents, and product_inquiry
\* whenever the classifier's reply is not exactly one of the three names.
C9_ExactReplyOnly ==
    classifier_reply # NoReply =>
        /\ gstate.intent \in Intent
        /\ classifier_reply[1] \notin Intent => gstate.intent = PRODUCT_INQUIRY

\* C9 (amended): detect returns one of the three intents: the one the reply
\* names once its surrounding white space is removed and it is lower-cased, and
\* product_inquiry whenever the reply so normalised is none of the three names.
C9_NormalisedReply ==
    classifier_reply # NoReply =>
        /\ gstate.intent \in Intent
        /\ lower(strip(classifier_reply[1])) \in Intent =>
                gstate.intent = lower(strip(classifier_reply[1]))
        /\ lower(strip(classifier_reply[1])) \notin Intent =>
                gstate.intent = PRODUCT_INQUIRY

\* C9 witness: the classifier answered with none of the three names and the turn
\* was resolved to product_inquiry.
C9_Witness ==
    /\ classifier_reply # NoReply
    /\ lower(strip(classifier_reply[1])) \notin Intent
    /\ gstate.intent = PRODUCT_INQUIRY

\* the branch each intent is to run
HandlerFor(intent) ==
    CASE intent = GREETING -> "handle_greeting"
      [] intent = PRODUCT_INQUIRY -> "handle_inquiry"
      [] intent = HIGH_INTENT_LEAD -> "handle_lead"

\* C10: after every processed turn the state's intent is one of greeting,
\* product_inquiry, high_intent_lead, and exactly one of the three branches ran
\* in the turn: the one of that intent.
C10_RoutingTotal ==
    (pc = "end" \/ (pc = "idle" /\ outcome = "ok")) =>
        /\ gstate.intent \in Intent
        /\ ran \cap HandlerNodes = {HandlerFor(gstate.intent)}
        /\ ran \subseteq HandlerNodes \cup {"collect_lead_info", "mock_lead_capture"}

\* C10 witness: a ConversationalAgent turn resolved to product_inquiry has
\* returned after the inquiry branch ran.
C10_Witness ==
    /\ agent = CA
    /\ pc = "idle"
    /\ outcome = "ok"
    /\ state.intent = PRODUCT_INQUIRY
    /\ ran = {"handle_inquiry"}

\* C11: every successful chat call increases conversation_turn by exactly one,
\* on the override path and on the classifier path and whichever branch runs;
\* the counter never decreases and is 0 in a new conversation.
C11_TurnCountedOnce ==
    /\ [][state'.conversation_turn >= state.conversation_turn]_vars
    /\ []((pc = "idle" /\ outcome = "ok") =>
            state.conversation_turn = before.conversation_turn + 1)
    /\ []((outcome = "none" /\ pc = "idle") => state.conversation_turn = 0)

\* C11 witness: a turn taken on the override path has returned and the counter
\* stands at two.
C11_Witness ==
    /\ agent = CA
    /\ pc = "idle"
    /\ outcome = "ok"
    /\ SlotFillingMode(before.lead_info)
    /\ state.conversation_turn = 2

\* a call of chat has returned to the caller
Returned == pc = "idle" /\ outcome = "ok"

\* C12: every successful ConversationalAgent.chat call extends the history by
\* exactly two entries, the user message and then one agent response, and
\* leaves the earlier entries as they were, also on the turn that completes the
\* lead.
C12_HistoryGrowsByTwo ==
    (agent = CA /\ Returned) =>
        LET n == Len(before.messages)
        IN  /\ Len(state.messages) = n + 2
            /\ SubSeq(state.messages, 1, n) = before.messages
            /\ state.messages[n + 1].role = "human"
            /\ state.messages[n + 2].role = "ai"

\* C13: no step of a conversation removes a field from lead_info: the fields
\* present after a step contain those present before it.
C13_LeadNeverCleared ==
    [][/\ DOMAIN state.lead_info \subseteq DOMAIN state'.lead_info
       /\ DOMAIN gstate.lead_info \subseteq DOMAIN gstate'.lead_info]_vars

\* C13 witness: a lead turn that began with a field stored has returned with
\* one more field stored.
C13_Witness ==
    /\ Returned
    /\ "handle_lead" \in ran
    /\ DOMAIN before.lead_info # {}
    /\ DOMAIN state.lead_info # DOMAIN before.lead_info

\* C14: a turn resolved to greeting or product_inquiry leaves lead_info as it
\* was and does not invoke the sink; a new conversation whose first message is
\* resolved to product_inquiry still has an empty lead.
C14_NonLeadTurnKeepsLead ==
    ((Returned \/ pc = "end") /\ gstate.intent \in {GREETING, PRODUCT_INQUIRY}) =>
        /\ gstate.lead_info = before.lead_info
        /\ "mock_lead_capture" \notin ran

\* C14 witness: the first message of a conversation carries an email, is
\* resolved to product_inquiry, and the call has returned.
C14_Witness ==
    /\ Returned
    /\ before = NewState
    /\ state.intent = PRODUCT_INQUIRY
    /\ "email" \in DOMAIN Extracted[CurrentMessage]
    /\ state.lead_info = <<>>

\* the fields of the lead that hold no value
Missing(lead_info) == {f \in Fields : ~Set(lead_info, f)}

\* the prompt that names exactly the fields of a non-empty set of missing fields
PromptFor(missing) ==
    CASE missing = {"name", "email", "platform"} -> AskAllThree
      [] missing = {"name", "email"} -> AskNameEmail
      [] missing = {"name", "platform"} -> AskNamePlatform
      [] missing = {"email", "platform"} -> AskEmailPlatform
      [] missing = {"name"} -> AskName
      [] missing = {"email"} -> AskEmail
      [] missing = {"platform"} -> AskPlatform

\* C15: a lead turn that ends with fields missing answers with the prompt for
\* exactly those fields: the three questions, the pairwise phrasing of the two
\* missing fields, or the single question for the one missing field.
C15_PromptNamesMissing ==
    (agent = CA /\ Returned /\ "handle_lead" \in ran
        /\ Missing(state.lead_info) # {}) =>
            response = <<PromptFor(Missing(state.lead_info))>>

\* C16: on the turn that completes the lead with a valid email the sink is
\* called with the name, email and platform stored in lead_info, and chat
\* returns the confirmation text, which contains those three values.
C16_CaptureEchoesLead ==
    (Returned /\ "mock_lead_capture" \in ran) =>
        LET lead == state.lead_info
            call == sink[Len(sink)]
        IN  /\ AllSetAndValid(lead)
            /\ call.returned
            /\ \A f \in Fields : call[f] = lead[f]
            /\ response = <<Confirmation(lead["name"], lead["email"], lead["platform"])>>
            /\ \A f \in Fields : Contains(response[1], lead[f])

\* C16 witness: a ConversationalAgent turn that began with an incomplete lead
\* has invoked the sink and returned.
C16_Witness ==
    /\ agent = CA
    /\ Returned
    /\ "mock_lead_capture" \in ran
    /\ DOMAIN before.lead_info # {}
    /\ Len(sink) = 1

\* the user messages of a history, in their order
UserTurns(messages) ==
    LET human == SelectSeq(messages, LAMBDA e : e.role = "human")
    IN  [k \in 1..Len(human) |-> human[k].content]

\* the texts only the lead branch answers with
LeadAnswers ==
    {AskAllThree, AskNameEmail, AskNamePlatform, AskEmailPlatform, AskName,
     AskEmail, AskPlatform, ThankYou}

\* the first turn of the conversation was resolved to high_intent_lead
FirstTurnWasLead ==
    /\ Len(state.messages) >= 2
    /\ state.messages[2].role = "ai"
    /\ state.messages[2].content \in LeadAnswers

\* C17: scenario B: in a conversation with an empty lead the message "I want to
\* try the Pro plan for my YouTube channel.", resolved to high_intent_lead, sets
\* platform to "YouTube" and neither name nor email, and the response asks for
\* name and email.
C17_ScenarioB ==
    (/\ agent = CA
     /\ Returned
     /\ before = NewState
     /\ CurrentMessage = ScenarioB
     /\ state.intent = HIGH_INTENT_LEAD) =>
        /\ Get(state.lead_info, "platform") = "YouTube"
        /\ Missing(state.lead_info) = {"name", "email"}
        /\ response = <<AskNameEmail>>

\* C18: scenarios B, C, D in sequence on ConversationalAgent, B resolved to
\* high_intent_lead: after the second turn name is "John Doe" and only email is
\* missing; the third turn invokes the sink exactly once, with ("John Doe",
\* "john.doe@example.com", "YouTube"), and returns the confirmation with the
\* three values.
C18_ScenariosBCD ==
    (agent = CA /\ Returned /\ FirstTurnWasLead) =>
        /\ UserTurns(state.messages) = <<ScenarioB, ScenarioC>> =>
                /\ Get(state.lead_info, "name") = "John Doe"
                /\ Missing(state.lead_info) = {"email"}
        /\ UserTurns(state.messages) = <<ScenarioB, ScenarioC, ScenarioD>> =>
                /\ sink = << [name |-> "John Doe", email |-> ScenarioD,
                              platform |-> "YouTube", returned |-> TRUE] >>
                /\ response = <<Confirmation("John Doe", ScenarioD, "YouTube")>>

\* C19: scenario E: "john.doe@invalid" sent on a lead turn while the email is
\* still missing does not invoke the sink and is answered with the request for
\* a valid email address; a well-formed email sent on the next turn is stored.
C19_ScenarioE ==
    (agent = CA /\ Returned /\ "handle_lead" \in ran
        /\ ~Set(before.lead_info, "email")) =>
        /\ CurrentMessage = ScenarioE =>
                /\ "mock_lead_capture" \notin ran
                /\ response = <<AskValidEmail>>
        /\ (/\ CurrentMessage = ScenarioD
            /\ UserTurns(before.messages) # <<>>
            /\ UserTurns(before.messages)[Len(UserTurns(before.messages))] = ScenarioE) =>
                Get(state.lead_info, "email") = ScenarioD

\* the messages that consist of an email address and nothing else
EmailOnlyMessages ==
    {m \in UserMessages \cup ScenarioMessages : HasEmail(m) /\ ExtractEmail(m) = m}

\* C20: from a message that is an email address and nothing else
\* extract_info_from_message returns no name and no platform, so a lead turn on
\* it commits only the email.
C20_EmailOnlyMessage ==
    /\ (pc = "process_message" /\ CurrentMessage \in EmailOnlyMessages) =>
            DOMAIN Extracted[CurrentMessage] \subseteq {"email"}
    /\ (agent = CA /\ Returned /\ "handle_lead" \in ran
            /\ CurrentMessage \in EmailOnlyMessages) =>
            (DOMAIN state.lead_info \ DOMAIN before.lead_info) \subseteq {"email"}

RECURSIVE RenderedFrom(_, _)
\* the entries i, i + 1, ... of a history, one per line, oldest first
RenderedFrom(messages, i) ==
    LET line == IF messages[i].role = "human"
                THEN "User: " \o messages[i].content
                ELSE "Agent: " \o messages[i].content
    IN  IF i > Len(messages) THEN ""
        ELSE IF i = Len(messages) THEN line
        ELSE line \o "\n" \o RenderedFrom(messages, i + 1)

\* C22: the history text the classifier receives is made of the last 6 entries
\* at most that precede the current user message, oldest first, each rendered
\* as "User: <text>" or "Agent: <text>"; the current message is not in it.
C22_ClassifierWindow ==
    history # NoHistory =>
        LET prior == SubSeq(gstate.messages, 1, Len(gstate.messages) - 1)
        IN  history[1] = RenderedFrom(prior, Max({1, Len(prior) - 5}))

\* C22 witness: the classifier is called in a conversation whose earlier
\* entries are more than six.
C22_Witness ==
    /\ history # NoHistory
    /\ Len(gstate.messages) - 1 > 6
    /\ gstate.messages[Len(gstate.messages) - 7].role = "ai"

C24_WholeTextMatches ==
    verdict = <<TRUE>> =>
        /\ ValidUpTo(probe, Len(probe))
        /\ \A i \in 1..Len(probe) : Ch(probe, i) \notin Space

\* C25: TestModeAgent.chat forces high_intent_lead whenever the conversation is
\* in slot-filling mode as the specification defines it, the case of name,
\* email and platform set with the stored email failing validate_email
\* included.
C25_TestModeOverridesInSlotFilling ==
    (agent = "TestModeAgent" /\ Returned /\ SlotFillingMode(before.lead_info)) =>
        state.intent = HIGH_INTENT_LEAD

\* C26: in TestModeAgent a name held in lead_info is not changed by a later
\* turn, whatever the message carries.
C26_TestModeNameKept ==
    (agent = "TestModeAgent" /\ Returned /\ Set(before.lead_info, "name")) =>
        /\ Set(state.lead_info, "name")
        /\ state.lead_info["name"] = before.lead_info["name"]

\* What ConversationalAgent does in one turn on the state the turn started
\* from, when its classifier gives the result the mock detector gave:
\* _process_message, _handle_lead, _check_lead_info_complete, _collect_lead_info
SideIntent ==
    IF IsCollectingLead(before.lead_info)
    THEN HIGH_INTENT_LEAD
    ELSE MockDetect(CurrentMessage, FormatConversationHistory(before.messages))

SideLead ==
    IF SideIntent = HIGH_INTENT_LEAD
    THEN CommitExtracted(before.lead_info, Extract(CurrentMessage))
    ELSE before.lead_info

SideCaptures == SideIntent = HIGH_INTENT_LEAD /\ LeadComplete(SideLead)

SideLeadResponse ==
    IF LeadComplete(SideLead)
    THEN Confirmation(SideLead["name"], SideLead["email"], SideLead["platform"])
    ELSE LeadResponse(MissingList(SideLead))

\* C27: TestModeAgent and ConversationalAgent are the same lead state machine:
\* from the same state, on the same message and with the same classifier
\* result where the classifier is consulted, a turn of TestModeAgent ends with
\* the intent, the lead_info and the sink call a turn of ConversationalAgent
\* ends with, and on a lead-branch turn with the same response text.
C27_SameLeadStateMachine ==
    (agent = "TestModeAgent" /\ Returned) =>
        /\ state.intent = SideIntent
        /\ state.lead_info = SideLead
        /\ ("mock_lead_capture" \in ran) = SideCaptures
        /\ state.intent = HIGH_INTENT_LEAD => response = <<SideLeadResponse>>

\* C28: after a lead-branch turn has answered with a prompt for missing fields,
\* the prompt for all three included, the next turn is routed to the lead
\* branch and the classifier does not resolve it to greeting or
\* product_inquiry.
C28_PromptedStaysInLeadBranch ==
    (/\ agent = CA
     /\ Returned
     /\ before.intent = HIGH_INTENT_LEAD
     /\ Len(before.messages) >= 2
     /\ before.messages[Len(before.messages)].role = "ai"
     /\ before.messages[Len(before.messages)].content
            \in LeadAnswers \ {ThankYou}) =>
        /\ state.intent = HIGH_INTENT_LEAD
        /\ "handle_lead" \in ran

\* C29: from a state in which the lead is non-empty and not yet captured, a
\* message from which the extractor yields a name, a valid email and a
\* platform brings the turn to the lead capture sink and the confirmation: no
\* reachable state leaves the conversation unable to complete.
C29_CompletableFromEveryState ==
    (/\ agent = CA
     /\ Returned
     /\ DOMAIN before.lead_info # {}
     /\ ~LeadComplete(before.lead_info)
     /\ Fields \subseteq DOMAIN Extracted[CurrentMessage]
     /\ validate_email(Extracted[CurrentMessage]["email"])) =>
        /\ "mock_lead_capture" \in ran
        /\ response = <<Confirmation(state.lead_info["name"],
                                     state.lead_info["email"],
                                     state.lead_info["platform"])>>

\* C30: an email stored in lead_info by ConversationalAgent passes
\* validate_email, in the state the caller holds and in the state the graph
\* works on.
C30_StoredEmailIsValid ==
    agent = CA =>
        /\ Set(state.lead_info, "email") =>
                validate_email(state.lead_info["email"])
        /\ Set(gstate.lead_info, "email") =>
                validate_email(gstate.lead_info["email"])

\* C31: the intent classifier is called at most once in a turn: once when the
\* turn starts outside slot-filling mode, and not at all when it starts in
\* slot-filling mode.
C31_ClassifierOnlyOutsideSlotFilling ==
    /\ detections <= 1
    /\ (pc \notin {"idle", "process_message"} \/ (pc = "idle" /\ outcome # "none")) =>
            detections = IF SlotFillingMode(before.lead_info) THEN 0 ELSE 1

\* C32: between the chat calls of a conversation in which every call has
\* returned, conversation_turn is the number of user messages in the history.
C32_TurnsAreUserMessages ==
    pc = "idle" => state.conversation_turn = Len(UserTurns(state.messages))

\* C32 witness: a second turn has returned, one that the override sent to the
\* lead branch without consulting the classifier.
C32_Witness ==
    /\ Returned
    /\ state.conversation_turn >= 2
    /\ Len(UserTurns(state.messages)) >= 2
    /\ detections = 0
    /\ "handle_lead" \in ran
====
